---- MODULE Spec2Model ----
(***************************************************************************)
(* Model of main.py of laundry-is-done: an accelerometer sampler thread    *)
(* (update_readings_thread), the MQTT message callback                      *)
(* (handle_incoming_message) and the asyncio reconciler loop (main), which  *)
(* share the module globals without a lock.                                 *)
(*                                                                          *)
(* Text is a sequence of one-character strings, so that str.lower() and     *)
(* str(tuple) are computed character by character.  Python's None is        *)
(* NoneStr for the text-valued globals (command, notification) and NoneTup  *)
(* for the tuple-valued global accelerometer_changes.                       *)
(*                                                                          *)
(* Granularity of Spec: one sampler loop iteration is one step; the         *)
(* coroutine main() is cut at its await points, so each reconciler step is  *)
(* the code that runs from one await to the next.  The sampler thread and   *)
(* the message callback may run between any two such steps.                 *)
(*                                                                          *)
(* FineSpec takes the sampler statement by statement (the load and the      *)
(* store of idle_counter += 1 apart) under a fixed configuration.  ConnSpec *)
(* adds conn_han and a link that goes down and comes back; in Spec and      *)
(* FineSpec the link stays up and the handler's steps are left out.         *)
(***************************************************************************)
EXTENDS Integers, Sequences, FiniteSets, TLC

VARIABLES
    sensitivity,            \* main.py:20
    idle_counter,           \* main.py:21
    sample_secs,            \* main.py:24
    max_idle_periods,       \* main.py:25
    command,                \* main.py:28
    config_done,            \* main.py:38
    is_active,              \* main.py:39
    accelerometer_changes,  \* main.py:40
    notification,           \* main.py:41
    last_readings,          \* main.py:46
    pcMain,                 \* the await at which main() is suspended
    pcSampler,              \* position of update_readings_thread ("run": at line 51)
    inflight,               \* arguments of the client.publish call main() awaits
    fresh,                  \* history: the fields staged into since their last publication
    duplicate,              \* history: the fields published twice with no staging between
    last,                   \* history: the last step: who took it, the config payload it
                            \* handled, the fields it staged a value into
    fired,                  \* history: the completion trigger has fired in this idle episode
    connected,              \* the transport holds a connection to the broker
    subs,                   \* the topics subscribed in the broker's current session
    pcConn,                 \* the awaits at which running conn_han tasks are suspended
    status,                 \* the retained message on DEVICE_STATUS_TOPIC
    change,                 \* sampler locals change_x, change_y, change_z (main.py:55-57)
    counter_reg,            \* the value `idle_counter += 1` has loaded and not yet stored
    quiet                   \* history: consecutive quiet samples taken since the last
                            \* motion or reactivation

vars == <<sensitivity, idle_counter, sample_secs, max_idle_periods, command,
          config_done, is_active, accelerometer_changes, notification,
          last_readings, pcMain, pcSampler, inflight, fresh, duplicate, last,
          fired, change, counter_reg, quiet, connected, subs, pcConn, status>>

link == <<connected, subs, pcConn>>

net == <<connected, subs, pcConn, status>>

samplerLocals == <<change, counter_reg>>

shared == <<sensitivity, idle_counter, sample_secs, max_idle_periods, command,
            config_done, is_active, accelerometer_changes, notification,
            last_readings>>

-----------------------------------------------------------------------------
(* Bounds of the model *)

\* idle_counter grows without bound while nothing deactivates the sampler;
\* a quiet sample is taken only while idle_counter is below this bound.
MaxIdleCounter == 3

-----------------------------------------------------------------------------
(* Text and Python values *)

NoneStr == <<"None">>
NoneTup == <<>>

\* mutant: the test is `is not None`, so '' counts as a staged value
TruthyStr_NotNone(s) == s # NoneStr

\* Python truthiness of `command` and `notification`: None and '' are false.
TruthyStr(s) == s # NoneStr /\ Len(s) > 0

\* Python truthiness of `accelerometer_changes`: None is false, a 3-tuple is true.
TruthyTup(t) == t # NoneTup /\ Len(t) > 0

LowerChar(c) ==
    CASE c = "O" -> "o"
      [] c = "N" -> "n"
      [] c = "F" -> "f"
      [] OTHER   -> c

\* mutant: the comparison with 'on' is made on the raw string
Lower_Identity(s) == s

\* str.lower()
Lower(s) == [i \in 1..Len(s) |-> LowerChar(s[i])]

DigitChar(d) ==
    CASE d = 0 -> "0" [] d = 1 -> "1" [] d = 2 -> "2" [] d = 3 -> "3"
      [] d = 4 -> "4" [] d = 5 -> "5" [] d = 6 -> "6" [] d = 7 -> "7"
      [] d = 8 -> "8" [] d = 9 -> "9"

RECURSIVE IntStr(_)
IntStr(n) ==
    IF n < 10 THEN <<DigitChar(n)>>
    ELSE IntStr(n \div 10) \o <<DigitChar(n % 10)>>

\* str() of a 3-tuple of non-negative ints: "(x, y, z)"
TupleStr(t) ==
    <<"(">> \o IntStr(t[1]) \o <<",", " ">> \o IntStr(t[2])
            \o <<",", " ">> \o IntStr(t[3]) \o <<")">>

Abs(x) == IF x < 0 THEN -x ELSE x

On  == <<"o", "n">>
Off == <<"o", "f", "f">>
DoneMessage == <<"W", "e", "'", "r", "e", " ", "d", "o", "n", "e", "!">>
Online == <<"o", "n", "l", "i", "n", "e">>
Offline == <<"o", "f", "f", "l", "i", "n", "e">>

-----------------------------------------------------------------------------
(* Topics *)

BASE_TOPIC == "esp32/washer"
DEVICE_STATUS_TOPIC == "esp32/washer/status"
CONFIG_TOPIC == "esp32/washer/config"
ACTIVE_TOPIC == "esp32/washer/active/1"
READINGS_TOPIC == "esp32/washer/readings/1"
NOTIFY_TOPIC == "esp32/washer/notify"
COMMAND_TOPIC == "esp32/washer/active/1/set"

-----------------------------------------------------------------------------
(* Inputs *)

\* Values accelerometer.get_values() may return (the gyro axes the sampler reads).
Readings ==
    { [GyX |-> 0,  GyY |-> 0,   GyZ |-> 0],
      [GyX |-> 50, GyY |-> -50, GyZ |-> 50],
      [GyX |-> 60, GyY |-> -55, GyZ |-> 55],
      [GyX |-> 62, GyY |-> -56, GyZ |-> 56] }

\* Payloads arriving on the command topic.
CommandPayloads == { On, <<"O", "N">>, <<"O", "n">>, Off, <<"x">>, <<>> }

\* Payloads arriving on the config topic.
ConfigPayloads ==
    { "{\"maxIdlePeriods\": 3}",
      "{\"maxIdlePeriods\": 2}",
      "{\"sampleSecs\": 5, \"sensitivity\": 20}",
      "{maxIdlePeriods: 3",
      "[5, 2, 20]" }

\* json.loads on the payloads above: the parsed value, or the exception raised.
JsonLoads(s) ==
    CASE s = "{\"maxIdlePeriods\": 3}" ->
            [raises |-> FALSE, type |-> "dict", value |-> [maxIdlePeriods |-> 3]]
      [] s = "{\"maxIdlePeriods\": 2}" ->
            [raises |-> FALSE, type |-> "dict", value |-> [maxIdlePeriods |-> 2]]
      [] s = "{\"sampleSecs\": 5, \"sensitivity\": 20}" ->
            [raises |-> FALSE, type |-> "dict",
             value |-> [sampleSecs |-> 5, sensitivity |-> 20]]
      [] s = "[5, 2, 20]" ->
            [raises |-> FALSE, type |-> "list", value |-> <<5, 2, 20>>]
      [] OTHER ->
            [raises |-> TRUE, type |-> "ValueError", value |-> <<>>]

\* mutant: config.get(key) without the current value as default
DictGet_NoDefault(d, key, default) == IF key \in DOMAIN d THEN d[key] ELSE 0

\* dict.get(key, default)
DictGet(d, key, default) == IF key \in DOMAIN d THEN d[key] ELSE default

Fields == {"command", "readings", "notification"}

NoPublish == [topic |-> "", msg |-> <<>>, retain |-> FALSE]

-----------------------------------------------------------------------------
(* History bookkeeping *)

Step(by, msg, staged) == [by |-> by, msg |-> msg, staged |-> staged]

hist == <<fresh, duplicate>>

\* A step that stages a value into each field of S.
Stage(S) ==
    /\ fresh' = fresh \cup S
    /\ UNCHANGED duplicate

\* A step that completes a publication of field f: it delivers the staging that
\* made f fresh, or else repeats a publication already made.
Publish(f) ==
    /\ fresh' = fresh \ {f}
    /\ duplicate' = IF f \in fresh THEN duplicate ELSE duplicate \cup {f}

-----------------------------------------------------------------------------
Init ==
    /\ sensitivity = 110
    /\ idle_counter = 0
    /\ sample_secs = 10
    /\ max_idle_periods = 6
    /\ command = NoneStr
    /\ config_done = FALSE
    /\ is_active = FALSE
    /\ accelerometer_changes = NoneTup
    /\ notification = NoneStr
    /\ last_readings \in Readings
    /\ pcMain = "connect"
    /\ pcSampler = "run"
    /\ inflight = NoPublish
    /\ fresh = {}
    /\ duplicate = {}
    /\ last = Step("init", "", {})
    /\ fired = FALSE
    /\ connected = FALSE
    /\ subs = {}
    /\ pcConn = {}
    /\ status = NoneStr
    /\ change = NoneTup
    /\ counter_reg = 0
    /\ quiet = 0

-----------------------------------------------------------------------------
(* update_readings_thread *)

\* mutant: the sampler runs whether or not monitoring is active
SamplerActive_Always == TRUE

\* line 52: the activity check
SamplerActive == is_active

\* mutant: a change equal to the threshold counts as motion
Moved_Inclusive(change_x, change_y, change_z) ==
    change_x + change_y + change_z >= sensitivity

\* line 61: motion is a combined change above the threshold
Moved(change_x, change_y, change_z) == change_x + change_y + change_z > sensitivity

\* mutant: the trigger fires only on the exact value
Done_Exact(counter) == counter = max_idle_periods

\* line 65: the completion trigger
Done(counter) == counter >= max_idle_periods

\* lines 53-68: one sample taken while is_active
ActiveCycle(accelerometer_values) ==
    LET change_x == Abs(last_readings.GyX - accelerometer_values.GyX)
        change_y == Abs(last_readings.GyY - accelerometer_values.GyY)
        change_z == Abs(last_readings.GyZ - accelerometer_values.GyZ)
        moved    == Moved(change_x, change_y, change_z)
        counter  == IF moved THEN 0 ELSE idle_counter + 1
        staged   == IF Done(counter)
                    THEN {"readings", "command", "notification"}
                    ELSE {"readings"}
    IN  /\ moved \/ idle_counter < MaxIdleCounter
        /\ last_readings' = accelerometer_values
        /\ accelerometer_changes' = <<change_x, change_y, change_z>>
        /\ idle_counter' = counter
        /\ IF Done(counter)
           THEN /\ command' = Off
                /\ notification' = DoneMessage
                /\ fired' = TRUE
           ELSE /\ UNCHANGED <<command, notification>>
                /\ fired' = IF moved THEN FALSE ELSE fired
        /\ quiet' = IF moved THEN 0 ELSE quiet + 1
        /\ last' = Step("sampler", "", staged)
        /\ Stage(staged)

\* lines 51-70: one iteration of the loop, the sleep that ends it included
SamplerCycle ==
    /\ pcSampler = "run"
    /\ IF SamplerActive
       THEN \E v \in Readings : ActiveCycle(v)
       ELSE /\ UNCHANGED <<last_readings, accelerometer_changes, idle_counter,
                           command, notification, hist, fired, quiet>>
            /\ last' = Step("sampler", "", {})
    /\ UNCHANGED <<sensitivity, sample_secs, max_idle_periods, config_done,
                   is_active, pcMain, pcSampler, samplerLocals, net, inflight>>

-----------------------------------------------------------------------------
(* handle_incoming_message *)

\* lines 82-85: json.loads returned and config.get exists, so nothing raises
Parsed(config) == ~config.raises /\ config.type = "dict"

\* mutant: the flag is set after the try block, whatever happened in it
ConfigDoneAfter_Always(parsed) == TRUE

\* line 88, skipped when line 82 or 83 raised
ConfigDoneAfter(parsed) == IF parsed THEN TRUE ELSE config_done

\* lines 81-91: the config branch
HandleConfig(msg_string) ==
    LET config == JsonLoads(msg_string)
    IN  /\ IF Parsed(config)
           THEN /\ sample_secs' = DictGet(config.value, "sampleSecs", sample_secs)
                /\ max_idle_periods' =
                       DictGet(config.value, "maxIdlePeriods", max_idle_periods)
                /\ sensitivity' = DictGet(config.value, "sensitivity", sensitivity)
           ELSE \* json.loads raised, or config.get raised AttributeError on
                \* line 83 before any assignment: the except clause logs it
                UNCHANGED <<sample_secs, max_idle_periods, sensitivity>>
        /\ config_done' = ConfigDoneAfter(Parsed(config))
        /\ last' = Step("config", msg_string, {})
        /\ UNCHANGED <<command, hist>>

\* lines 92-94: the command branch
HandleCommand(msg_string) ==
    /\ command' = msg_string
    /\ last' = Step("command", "", {"command"})
    /\ Stage({"command"})
    /\ UNCHANGED <<sample_secs, max_idle_periods, sensitivity, config_done>>

\* lines 73-94
HandleIncomingMessage(topic, msg, retained) ==
    /\ IF topic = CONFIG_TOPIC
       THEN HandleConfig(msg)
       ELSE HandleCommand(msg)
    /\ UNCHANGED <<idle_counter, is_active, accelerometer_changes, notification,
                   last_readings, pcMain, pcSampler, samplerLocals, net, inflight, fired, quiet>>

-----------------------------------------------------------------------------
(* main: the reconciler coroutine, cut at its await points *)

\* lines 133-136: from the notification check to the next await
CheckNotification ==
    IF TruthyStr(notification)
    THEN /\ pcMain' = "pub_notification"
         /\ inflight' = [topic |-> NOTIFY_TOPIC, msg |-> notification, retain |-> FALSE]
    ELSE /\ pcMain' = "tick_sleep"
         /\ inflight' = NoPublish

\* lines 130-136: from the readings check to the next await
CheckReadings ==
    IF TruthyTup(accelerometer_changes)
    THEN /\ pcMain' = "pub_readings"
         /\ inflight' = [topic |-> READINGS_TOPIC,
                         msg |-> TupleStr(accelerometer_changes), retain |-> TRUE]
    ELSE CheckNotification

\* mutant: every drained command resets the counter and the staged readings
DrainCommand_ResetsAlways ==
    /\ is_active' = (Lower(command) = On)
    /\ idle_counter' = 0
    /\ accelerometer_changes' = NoneTup
    /\ fired' = FALSE
    /\ quiet' = 0
    /\ pcMain' = "pub_command"
    /\ inflight' = [topic |-> ACTIVE_TOPIC, msg |-> command, retain |-> TRUE]

\* lines 123-128: a staged command is interpreted and its publish is started
DrainCommand ==
    /\ is_active' = (Lower(command) = On)
    /\ IF is_active'
       THEN /\ idle_counter' = 0
            /\ accelerometer_changes' = NoneTup
            /\ fired' = FALSE
            /\ quiet' = 0
       ELSE UNCHANGED <<idle_counter, accelerometer_changes, fired, quiet>>
    /\ pcMain' = "pub_command"
    /\ inflight' = [topic |-> ACTIVE_TOPIC, msg |-> command, retain |-> TRUE]

\* mutant: the tick runs without waiting for a configuration
ConfigGate_Open(tick) == tick

\* lines 119-121: the gate; the tick runs only once a configuration was accepted
ConfigGate(tick) ==
    IF ~config_done
    THEN /\ pcMain' = "config_wait"
         /\ inflight' = NoPublish
         /\ UNCHANGED <<is_active, idle_counter, accelerometer_changes, fired, quiet>>
    ELSE tick

\* mutant: the tick checks the notification before the command
LoopTop_NotificationFirst ==
    /\ ConfigGate(IF TruthyStr(notification)
                  THEN /\ CheckNotification
                       /\ UNCHANGED <<is_active, idle_counter,
                                      accelerometer_changes, fired, quiet>>
                  ELSE IF TruthyStr(command)
                       THEN DrainCommand
                       ELSE /\ CheckReadings
                            /\ UNCHANGED <<is_active, idle_counter,
                                           accelerometer_changes, fired, quiet>>)
    /\ last' = Step("main", "", {})
    /\ UNCHANGED <<sensitivity, sample_secs, max_idle_periods, command, config_done,
                   notification, last_readings, pcSampler, samplerLocals, link, hist>>

\* lines 118-136: from the top of `while True` to the next await
LoopTop ==
    /\ ConfigGate(IF TruthyStr(command)
                  THEN DrainCommand
                  ELSE /\ CheckReadings
                       /\ UNCHANGED <<is_active, idle_counter,
                                      accelerometer_changes, fired, quiet>>)
    /\ last' = Step("main", "", {})
    /\ UNCHANGED <<sensitivity, sample_secs, max_idle_periods, command, config_done,
                   notification, last_readings, pcSampler, samplerLocals, link, hist>>

\* line 114: await client.connect() returns: the connection is established
\* and the transport has created a task running connect_coro (line 140)
MainConnect ==
    /\ pcMain = "connect"
    /\ pcMain' = "broker_sleep"
    /\ connected' = TRUE
    /\ subs' = {}
    /\ pcConn' = {"sub_command"}
    /\ last' = Step("main", "", {})
    /\ UNCHANGED <<shared, pcSampler, samplerLocals, status, inflight, hist, fired, quiet>>

\* line 115: await asyncio.sleep(2), then line 116 starts the status publish
MainBrokerSleep ==
    /\ pcMain = "broker_sleep"
    /\ pcMain' = "online"
    /\ inflight' = [topic |-> DEVICE_STATUS_TOPIC, msg |-> Online, retain |-> TRUE]
    /\ last' = Step("main", "", {})
    /\ UNCHANGED <<shared, pcSampler, samplerLocals, net, hist, fired, quiet>>

\* lines 116 and 109-110: await online() returns; the loop is entered
MainOnline ==
    /\ pcMain = "online"
    /\ status' = Online
    /\ LoopTop

\* line 121: await asyncio.sleep(5) returns; the gate is checked again
ConfigWait ==
    /\ pcMain = "config_wait"
    /\ LoopTop
    /\ UNCHANGED status

\* mutant: the staged command is not cleared after its publish
CommandPublished_NoClear ==
    /\ pcMain = "pub_command"
    /\ Publish("command")
    /\ CheckReadings
    /\ last' = Step("main", "", {})
    /\ UNCHANGED <<shared, pcSampler, samplerLocals, net, fired, quiet>>

\* lines 128-129: the command publish returns, the staged command is cleared
CommandPublished ==
    /\ pcMain = "pub_command"
    /\ command' = NoneStr
    /\ Publish("command")
    /\ CheckReadings
    /\ last' = Step("main", "", {})
    /\ UNCHANGED <<sensitivity, idle_counter, sample_secs, max_idle_periods,
                   config_done, is_active, accelerometer_changes, notification,
                   last_readings, pcSampler, samplerLocals, net, fired, quiet>>

\* lines 131-132: the readings publish returns, the staged readings are cleared
ReadingsPublished ==
    /\ pcMain = "pub_readings"
    /\ accelerometer_changes' = NoneTup
    /\ Publish("readings")
    /\ CheckNotification
    /\ last' = Step("main", "", {})
    /\ UNCHANGED <<sensitivity, idle_counter, sample_secs, max_idle_periods,
                   command, config_done, is_active, notification,
                   last_readings, pcSampler, samplerLocals, net, fired, quiet>>

\* lines 134-136: the notification publish returns, the notification is cleared
NotificationPublished ==
    /\ pcMain = "pub_notification"
    /\ notification' = NoneStr
    /\ Publish("notification")
    /\ pcMain' = "tick_sleep"
    /\ inflight' = NoPublish
    /\ last' = Step("main", "", {})
    /\ UNCHANGED <<sensitivity, idle_counter, sample_secs, max_idle_periods,
                   command, config_done, is_active, accelerometer_changes,
                   last_readings, pcSampler, samplerLocals, net, fired, quiet>>

\* line 136: await asyncio.sleep(1) returns; the next tick starts
TickSleep ==
    /\ pcMain = "tick_sleep"
    /\ LoopTop
    /\ UNCHANGED status

-----------------------------------------------------------------------------
ConfigMessage ==
    \* `retained` only selects the warning printed on line 79
    \E msg \in ConfigPayloads :
        HandleIncomingMessage(CONFIG_TOPIC, msg, TRUE)

CommandMessage ==
    \E msg \in CommandPayloads :
        HandleIncomingMessage(COMMAND_TOPIC, msg, FALSE)

Next ==
    \/ SamplerCycle
    \/ ConfigMessage
    \/ CommandMessage
    \/ MainConnect
    \/ MainBrokerSleep
    \/ MainOnline
    \/ ConfigWait
    \/ CommandPublished
    \/ ReadingsPublished
    \/ NotificationPublished
    \/ TickSleep

Spec == Init /\ [][Next]_vars

-----------------------------------------------------------------------------
(* Steps, as the properties below recognise them *)

\* a sampler loop iteration that found is_active true
ActiveSamplerStep == last'.by = "sampler" /\ is_active

\* the sampler stages the "off" command and the completion notification
StagesCompletion(step) == {"command", "notification"} \subseteq step.staged

\* |dX| + |dY| + |dZ| between two readings
Delta(a, b) == Abs(a.GyX - b.GyX) + Abs(a.GyY - b.GyY) + Abs(a.GyZ - b.GyZ)

-----------------------------------------------------------------------------
\* C1: once the completion trigger has fired, the sampler cycles that follow in
\* the same idle episode (no motion spike, no reactivation in between) stage
\* neither the "off" command nor the notification again.
C1_FiresOncePerEpisode ==
    [][(last'.by = "sampler" /\ fired /\ idle_counter' > idle_counter)
           => ~StagesCompletion(last')]_vars

\* C2: an active sampler cycle resets idle_counter to 0 when the combined
\* change exceeds sensitivity and otherwise adds exactly 1 to it (a change equal
\* to the threshold is quiet); last_readings becomes the current reading and
\* the three per-axis changes are staged as readings.
C2_Classification ==
    [][ActiveSamplerStep =>
          /\ last_readings' \in Readings
          /\ idle_counter' = IF Delta(last_readings, last_readings') > sensitivity
                             THEN 0
                             ELSE idle_counter + 1
          /\ accelerometer_changes' =
                 << Abs(last_readings.GyX - last_readings'.GyX),
                    Abs(last_readings.GyY - last_readings'.GyY),
                    Abs(last_readings.GyZ - last_readings'.GyZ) >>
          /\ "readings" \in last'.staged
          /\ "readings" \in fresh']_vars

\* C2 witness: a sample whose combined change (10+5+5) equals the threshold 20
\* has just been counted as quiet.
C2_Witness ==
    /\ last.by = "sampler"
    /\ sensitivity = 20
    /\ accelerometer_changes = <<10, 5, 5>>
    /\ idle_counter = 2
    /\ is_active

\* C3: after the classification of an active sampler cycle, "off" and the
\* completion notification are staged if and only if idle_counter is greater
\* than or equal to max_idle_periods.
C3_TriggerIffReached ==
    [][ActiveSamplerStep =>
          /\ StagesCompletion(last') <=> idle_counter' >= max_idle_periods
          /\ StagesCompletion(last') =>
                 command' = Off /\ notification' = DoneMessage
          /\ ~StagesCompletion(last') =>
                 /\ UNCHANGED <<command, notification>>
                 /\ last'.staged = {"readings"}]_vars

\* C3 witness: threshold 110, max_idle_periods 2, the third sample (change
\* 2+1+1 = 4) brings the counter to 2 and the trigger fires.
C3_Witness ==
    /\ last.by = "sampler"
    /\ StagesCompletion(last)
    /\ sensitivity = 110
    /\ max_idle_periods = 2
    /\ accelerometer_changes = <<2, 1, 1>>
    /\ idle_counter = 2
    /\ command = Off
    /\ notification = DoneMessage

\* C4: a sampler cycle that runs while is_active is false changes nothing:
\* idle_counter and last_readings keep their values and the sampler stages no
\* readings, command or notification.
C4_InactiveSamplerFrame ==
    [][(last'.by = "sampler" /\ ~is_active) =>
          /\ UNCHANGED <<idle_counter, last_readings, accelerometer_changes,
                         command, notification, fresh, fired, quiet>>
          /\ last'.staged = {}]_vars

\* C4 witness: the sampler has just run while inactive, with a counter and
\* staged outputs left over from the last active period.
C4_Witness ==
    /\ last.by = "sampler"
    /\ last.staged = {}
    /\ ~is_active
    /\ idle_counter > 0
    /\ TruthyStr(notification)

\* the spellings that equal "on" under case-insensitive comparison
OnSpellings == { <<"o", "n">>, <<"O", "n">>, <<"o", "N">>, <<"O", "N">> }

\* the reconciler finds a staged command and starts its publish
DrainsCommand == last'.by = "main" /\ pcMain # "pub_command" /\ pcMain' = "pub_command"

\* C5: whenever the reconciler drains a staged command that equals "on" under
\* case-insensitive comparison, is_active becomes true, idle_counter becomes 0
\* and the pending staged readings are cleared without being published,
\* whatever is_active and idle_counter were.
C5_ReactivationResets ==
    [][(DrainsCommand /\ command \in OnSpellings) =>
          /\ is_active'
          /\ idle_counter' = 0
          /\ accelerometer_changes' = NoneTup
          /\ inflight'.topic = ACTIVE_TOPIC
          /\ UNCHANGED <<fresh, duplicate>>]_vars

\* C5 witness: "ON" has just been drained; readings staged before it were
\* cleared and are still unpublished.
C5_Witness ==
    /\ last.by = "main"
    /\ pcMain = "pub_command"
    /\ inflight.msg = <<"O", "N">>
    /\ is_active
    /\ idle_counter = 0
    /\ accelerometer_changes = NoneTup
    /\ "readings" \in fresh

\* a well-formed configuration message was handled in this step
HandlesConfig(msg) == last'.by = "config" /\ last'.msg = msg

\* C6: a well-formed configuration message updates exactly those of
\* sample_secs, max_idle_periods and sensitivity whose keys are present in the
\* payload and leaves the absent ones, idle_counter, is_active and all staged
\* outputs unchanged.
C6_ConfigMerge ==
    [][/\ HandlesConfig("{\"maxIdlePeriods\": 3}") =>
              /\ max_idle_periods' = 3
              /\ UNCHANGED <<sample_secs, sensitivity>>
       /\ HandlesConfig("{\"maxIdlePeriods\": 2}") =>
              /\ max_idle_periods' = 2
              /\ UNCHANGED <<sample_secs, sensitivity>>
       /\ HandlesConfig("{\"sampleSecs\": 5, \"sensitivity\": 20}") =>
              /\ sample_secs' = 5
              /\ sensitivity' = 20
              /\ UNCHANGED max_idle_periods
       /\ last'.by = "config" =>
              UNCHANGED <<idle_counter, is_active, command, accelerometer_changes,
                          notification, last_readings, fresh, duplicate>>]_vars

\* C6 witness: {"maxIdlePeriods": 3} has just been applied on top of a
\* non-default sample_secs and sensitivity, which it left alone.
C6_Witness ==
    /\ last.by = "config"
    /\ last.msg = "{\"maxIdlePeriods\": 3}"
    /\ max_idle_periods = 3
    /\ sample_secs = 5
    /\ sensitivity = 20

\* the payloads of ConfigPayloads that are not a JSON object
Malformed == { "{maxIdlePeriods: 3", "[5, 2, 20]" }

\* C7: a configuration message whose payload fails to parse changes nothing:
\* the three configuration values and the configuration-received flag keep
\* their values, and the handler returns (the step completes and leaves every
\* other global as it was).
C7_MalformedConfigIgnored ==
    [][(last'.by = "config" /\ last'.msg \in Malformed) =>
          UNCHANGED <<shared, pcMain, pcSampler, samplerLocals, inflight, fresh, duplicate,
                      fired, quiet>>]_vars

\* C7 witness: a payload that is not valid JSON has just been handled before
\* any configuration was accepted, and the gate is still closed.
C7_Witness ==
    /\ last.by = "config"
    /\ last.msg = "{maxIdlePeriods: 3"
    /\ ~config_done
    /\ pcMain = "config_wait"

\* C8: no staged field is published more often than a value was staged into
\* it: every publication of a field delivers a staging made since the field's
\* previous publication.
C8_NoDuplicatePublish == duplicate = {}

\* C8 witness: the completion notification was staged and has been published
\* and cleared.
C8_Witness ==
    /\ fired
    /\ notification = NoneStr
    /\ "notification" \notin fresh
    /\ pcMain = "tick_sleep"

\* C9: while no configuration has been accepted the reconciler consumes
\* nothing: it starts no publish, clears no staged field and leaves is_active
\* alone; meanwhile each command message replaces the staged command, and the
\* command the reconciler later interprets and publishes is the one staged at
\* that moment, after a configuration was accepted.
C9_GateConsumesNothing ==
    /\ [](~config_done =>
              /\ pcMain \in {"connect", "broker_sleep", "online", "config_wait"}
              /\ inflight.topic \notin {ACTIVE_TOPIC, READINGS_TOPIC, NOTIFY_TOPIC}
              /\ ~is_active)
    /\ [][(~config_done /\ last'.by = "main") =>
              UNCHANGED <<command, accelerometer_changes, notification,
                          is_active, fresh, duplicate>>]_vars
    /\ [][(~config_done /\ last'.by # "command") => UNCHANGED command]_vars
    /\ [][DrainsCommand =>
              /\ config_done
              /\ inflight' = [topic |-> ACTIVE_TOPIC, msg |-> command,
                              retain |-> TRUE]
              /\ is_active' = (command \in OnSpellings)]_vars

\* C9 witness: the reconciler has just polled the closed gate while a command
\* was staged, and left it staged.
C9_Witness ==
    /\ ~config_done
    /\ last.by = "main"
    /\ pcMain = "config_wait"
    /\ command = Off
    /\ "command" \in fresh

\* C10: in every state in which the configuration-received flag is false,
\* is_active is false, idle_counter is 0 and the sampler has staged neither
\* "off" nor a notification; and the flag, once true, stays true.
C10_NoCompletionBeforeConfig ==
    /\ [](~config_done =>
              /\ ~is_active
              /\ idle_counter = 0
              /\ notification = NoneStr
              /\ "notification" \notin fresh
              /\ ~fired
              /\ ~(last.by = "sampler" /\ last.staged # {}))
    /\ [][config_done => config_done']_vars

\* C10 witness: no configuration yet, an "on" command is staged, the sampler
\* has run, and monitoring has not begun.
C10_Witness ==
    /\ ~config_done
    /\ last.by = "sampler"
    /\ command = On
    /\ pcMain = "config_wait"
    /\ ~is_active

-----------------------------------------------------------------------------
\* C11: every value staged after a configuration was accepted is eventually
\* published.  The command field is a single slot, so a staged command can
\* only be published if the reconciler and the sampler leave it in the slot
\* until its own publish is in flight: the reconciler does not clear it when
\* the publish of another value returns, and the sampler's "off" does not
\* overwrite it before it is drained.
C11_StagedCommandNotLost ==
    [][(config_done /\ TruthyStr(command) /\ command' # command
            /\ last'.by # "command")
           => (pcMain = "pub_command" /\ inflight.msg = command)]_vars

-----------------------------------------------------------------------------
\* a reconciler step that runs the command check of line 123
ChecksCommand ==
    /\ last'.by = "main"
    /\ pcMain \in {"online", "config_wait", "tick_sleep"}
    /\ config_done

\* a reconciler step in which the publish of field f returns
PublishReturns(f) ==
    /\ last'.by = "main"
    /\ pcMain = f
    /\ pcMain' # f

\* C12: every payload received on the command channel, the empty string
\* included, is staged verbatim, and the reconciler's tick drains whatever
\* string is staged: it publishes that raw string on the active channel with
\* retain, sets is_active to true iff the string equals "on" case-insensitively
\* and to false for every other value, and the staged command is then empty.
C12_EveryPayloadDrained ==
    /\ [][last'.by = "command" =>
              /\ command' \in CommandPayloads
              /\ UNCHANGED <<is_active, inflight>>]_vars
    /\ [][(ChecksCommand /\ command # NoneStr) =>
              /\ pcMain' = "pub_command"
              /\ inflight' = [topic |-> ACTIVE_TOPIC, msg |-> command,
                              retain |-> TRUE]
              /\ is_active' = (command \in OnSpellings)]_vars
    /\ [][PublishReturns("pub_command") => command' = NoneStr]_vars

\* C12 as amended: every payload is staged verbatim; the tick drains a staged
\* string that is not empty (raw string published on the active channel with
\* retain, is_active true iff it equals "on" case-insensitively, the slot None
\* once the publish returns); an empty string is taken for no command: nothing
\* is published for it, is_active keeps its value and the slot keeps ''.
C12_NonEmptyPayloadDrained ==
    /\ [][last'.by = "command" =>
              /\ command' \in CommandPayloads
              /\ UNCHANGED <<is_active, inflight>>]_vars
    /\ [][(ChecksCommand /\ command # NoneStr /\ Len(command) > 0) =>
              /\ pcMain' = "pub_command"
              /\ inflight' = [topic |-> ACTIVE_TOPIC, msg |-> command,
                              retain |-> TRUE]
              /\ is_active' = (command \in OnSpellings)]_vars
    /\ [][(ChecksCommand /\ command = <<>>) =>
              /\ pcMain' # "pub_command"
              /\ inflight'.topic # ACTIVE_TOPIC
              /\ UNCHANGED <<is_active, command>>]_vars
    /\ [][PublishReturns("pub_command") => command' = NoneStr]_vars

\* C12 witness: the payload "x" has just been drained: it is being published
\* raw and retained on the active channel and monitoring was switched off.
C12_Witness ==
    /\ last.by = "main"
    /\ pcMain = "pub_command"
    /\ inflight = [topic |-> ACTIVE_TOPIC, msg |-> <<"x">>, retain |-> TRUE]
    /\ command = <<"x">>
    /\ ~is_active
    /\ idle_counter > 0

\* C14: the value the reconciler clears from a field is the value it
\* published: no other writer has staged a different value into the field
\* between the reconciler's read and its clear.
C14_ClearsWhatItPublished ==
    [][/\ PublishReturns("pub_command") => command = inflight.msg
       /\ PublishReturns("pub_readings") =>
              /\ TruthyTup(accelerometer_changes)
              /\ TupleStr(accelerometer_changes) = inflight.msg
       /\ PublishReturns("pub_notification") => notification = inflight.msg]_vars

\* the configuration globals and the flag that records its acceptance
configuration == <<sensitivity, sample_secs, max_idle_periods, config_done>>

\* C17: neither the completion trigger nor deactivation resets the counter.
\* The sampler step that fires the trigger leaves idle_counter at the value it
\* counted, which is at least max_idle_periods; a reconciler step that drains
\* a command other than "on" sets is_active false and changes nothing else of
\* the shared state, and the return of its publish changes only the staged
\* command.
C17_NoResetOnTriggerOrDeactivation ==
    /\ [][(ActiveSamplerStep /\ StagesCompletion(last')) =>
              /\ idle_counter' = idle_counter + 1
              /\ idle_counter' >= max_idle_periods
              /\ idle_counter' > 0]_vars
    /\ [][(DrainsCommand /\ command \notin OnSpellings) =>
              /\ ~is_active'
              /\ UNCHANGED <<idle_counter, last_readings, accelerometer_changes,
                             notification, configuration, command>>]_vars
    /\ [][PublishReturns("pub_command") =>
              UNCHANGED <<idle_counter, last_readings, accelerometer_changes,
                          notification, configuration, is_active>>]_vars

\* C17 witness: the trigger has fired and its "off" has just been drained:
\* monitoring is off, the counter still stands at or above max_idle_periods and
\* the readings and the notification are still staged.
C17_Witness ==
    /\ last.by = "main"
    /\ pcMain = "pub_command"
    /\ inflight.msg = Off
    /\ fired
    /\ ~is_active
    /\ idle_counter >= max_idle_periods
    /\ idle_counter > 0
    /\ TruthyTup(accelerometer_changes)
    /\ notification = DoneMessage

\* a reconciler step that starts the publish of the staged notification
StartsNotification ==
    /\ last'.by = "main"
    /\ pcMain # "pub_notification"
    /\ pcMain' = "pub_notification"

C16_SelfOffReachesPublish ==
    [][(/\ last.by = "sampler"
        /\ StagesCompletion(last)
        /\ command = Off
        /\ config_done
        /\ last'.by # "command")
           => command' = Off]_vars

-----------------------------------------------------------------------------
(* update_readings_thread, statement by statement.  _thread gives no       *)
(* atomicity beyond a single load or store of a global, so the reconciler   *)
(* and the message callback may run between any two of these steps.         *)

\* get_values() results of the fine-grained specification
FineReadings == { [GyX |-> 0, GyY |-> 0, GyZ |-> 0],
                  [GyX |-> 50, GyY |-> -50, GyZ |-> 50] }

\* payloads of the fine-grained specification: the configuration is fixed
FineCommands == { On, Off }
FineConfigs == { "{\"maxIdlePeriods\": 2}" }

\* line 52, and line 70 when monitoring is off
SamplerCheck ==
    /\ pcSampler = "run"
    /\ pcSampler' = IF SamplerActive THEN "read" ELSE "run"
    /\ last' = Step("sampler", "", {})
    /\ UNCHANGED <<shared, pcMain, inflight, net, hist, fired, quiet, samplerLocals>>

\* lines 53-60: the sensor is read, the changes are computed and staged
SamplerRead ==
    /\ pcSampler = "read"
    /\ \E accelerometer_values \in FineReadings :
         LET change_x == Abs(last_readings.GyX - accelerometer_values.GyX)
             change_y == Abs(last_readings.GyY - accelerometer_values.GyY)
             change_z == Abs(last_readings.GyZ - accelerometer_values.GyZ)
         IN  /\ \/ Moved(change_x, change_y, change_z)
                \/ quiet < MaxIdleCounter /\ idle_counter < MaxIdleCounter
             /\ last_readings' = accelerometer_values
             /\ change' = <<change_x, change_y, change_z>>
             /\ accelerometer_changes' = <<change_x, change_y, change_z>>
    /\ pcSampler' = "count"
    /\ last' = Step("sampler", "", {"readings"})
    /\ Stage({"readings"})
    /\ UNCHANGED <<sensitivity, idle_counter, sample_secs, max_idle_periods,
                   command, config_done, is_active, notification, pcMain,
                   inflight, net, fired, quiet, counter_reg>>

\* lines 61-64: the sample is classified; motion stores 0 into idle_counter,
\* a quiet sample loads idle_counter for the increment
SamplerCount ==
    /\ pcSampler = "count"
    /\ IF Moved(change[1], change[2], change[3])
       THEN /\ idle_counter' = 0
            /\ pcSampler' = "trigger"
            /\ fired' = FALSE
            /\ quiet' = 0
            /\ UNCHANGED counter_reg
       ELSE /\ counter_reg' = idle_counter
            /\ pcSampler' = "store"
            /\ quiet' = quiet + 1
            /\ UNCHANGED <<idle_counter, fired>>
    /\ last' = Step("sampler", "", {})
    /\ UNCHANGED <<sensitivity, sample_secs, max_idle_periods, command,
                   config_done, is_active, accelerometer_changes, notification,
                   last_readings, pcMain, inflight, net, hist, change>>

\* line 64: the incremented value is stored
SamplerStore ==
    /\ pcSampler = "store"
    /\ idle_counter' = counter_reg + 1
    /\ pcSampler' = "trigger"
    /\ last' = Step("sampler", "", {})
    /\ UNCHANGED <<sensitivity, sample_secs, max_idle_periods, command,
                   config_done, is_active, accelerometer_changes, notification,
                   last_readings, pcMain, inflight, net, hist, fired, quiet,
                   samplerLocals>>

\* lines 65-70: the completion trigger, then the sleep that ends the iteration
SamplerTrigger ==
    /\ pcSampler = "trigger"
    /\ IF Done(idle_counter)
       THEN /\ command' = Off
            /\ notification' = DoneMessage
            /\ fired' = TRUE
            /\ last' = Step("sampler", "", {"command", "notification"})
            /\ Stage({"command", "notification"})
       ELSE /\ UNCHANGED <<command, notification, fired, hist>>
            /\ last' = Step("sampler", "", {})
    /\ pcSampler' = "run"
    /\ UNCHANGED <<sensitivity, idle_counter, sample_secs, max_idle_periods,
                   config_done, is_active, accelerometer_changes, last_readings,
                   pcMain, inflight, net, quiet, samplerLocals>>

FineConfigMessage ==
    \E msg \in FineConfigs :
        HandleIncomingMessage(CONFIG_TOPIC, msg, TRUE)

FineCommandMessage ==
    \E msg \in FineCommands :
        HandleIncomingMessage(COMMAND_TOPIC, msg, FALSE)

FineNext ==
    \/ SamplerCheck
    \/ SamplerRead
    \/ SamplerCount
    \/ SamplerStore
    \/ SamplerTrigger
    \/ FineConfigMessage
    \/ FineCommandMessage
    \/ MainConnect
    \/ MainBrokerSleep
    \/ MainOnline
    \/ ConfigWait
    \/ CommandPublished
    \/ ReadingsPublished
    \/ NotificationPublished
    \/ TickSleep

\* the sampler statement by statement, the configuration fixed
FineSpec == Init /\ [][FineNext]_vars

-----------------------------------------------------------------------------
\* C13: the sampler does nothing while monitoring is off.  No step of the
\* sampler taken with is_active false increments idle_counter or stages a
\* value into the readings, the command or the notification.
C13_SamplerIdleWhenInactive ==
    [][(last'.by = "sampler" /\ ~is_active) =>
           /\ idle_counter' <= idle_counter
           /\ last'.staged = {}
           /\ UNCHANGED <<accelerometer_changes, command, notification>>]_vars

\* C15: after a reactivation the completion is staged only once
\* max_idle_periods consecutive quiet samples have been counted since it,
\* also when the reconciler's reset of idle_counter falls between the load and
\* the store of the sampler's increment.
C15_ResetNotLost ==
    [][(last'.by = "sampler" /\ StagesCompletion(last')) =>
           quiet' >= max_idle_periods]_vars

-----------------------------------------------------------------------------
(* The connection: conn_han, run by the transport as connect_coro on every  *)
(* connection it establishes, and the link going down and up under it.      *)
(* subscribe() and publish() return only while the link is up.  Tasks of    *)
(* conn_han suspended at the same await do the same thing next, so the set   *)
(* of their positions stands for them.                                       *)

\* the rest of the state a conn_han step or a link event leaves alone
program == <<shared, pcMain, pcSampler, samplerLocals, inflight, hist, fired,
             quiet>>

\* mutant: the second subscription is skipped
ConnSubCommand_SkipsConfig ==
    /\ connected
    /\ "sub_command" \in pcConn
    /\ subs' = subs \cup {COMMAND_TOPIC}
    /\ pcConn' = (pcConn \ {"sub_command"}) \cup {"online"}
    /\ last' = Step("conn", "", {})
    /\ UNCHANGED <<connected, status, program>>

\* line 104: await client.subscribe(COMMAND_TOPIC, 0) returns
ConnSubCommand ==
    /\ connected
    /\ "sub_command" \in pcConn
    /\ subs' = subs \cup {COMMAND_TOPIC}
    /\ pcConn' = (pcConn \ {"sub_command"}) \cup {"sub_config"}
    /\ last' = Step("conn", "", {})
    /\ UNCHANGED <<connected, status, program>>

\* line 105: await client.subscribe(CONFIG_TOPIC, 0) returns
ConnSubConfig ==
    /\ connected
    /\ "sub_config" \in pcConn
    /\ subs' = subs \cup {CONFIG_TOPIC}
    /\ pcConn' = (pcConn \ {"sub_config"}) \cup {"online"}
    /\ last' = Step("conn", "", {})
    /\ UNCHANGED <<connected, status, program>>

\* lines 106 and 109-110: await online() returns, the task ends
ConnOnline ==
    /\ connected
    /\ "online" \in pcConn
    /\ status' = Online
    /\ pcConn' = pcConn \ {"online"}
    /\ last' = Step("conn", "", {})
    /\ UNCHANGED <<connected, subs, program>>

\* the link goes down: the session and its subscriptions are gone, and the
\* broker publishes the will of line 142 unless the disconnect was clean
LinkDown ==
    /\ connected
    /\ connected' = FALSE
    /\ subs' = {}
    /\ status' \in {status, Offline}
    /\ last' = Step("transport", "", {})
    /\ UNCHANGED <<pcConn, program>>

\* the transport has reconnected and creates a new task running connect_coro
LinkUp ==
    /\ ~connected
    /\ pcMain # "connect"
    /\ connected' = TRUE
    /\ pcConn' = pcConn \cup {"sub_command"}
    /\ last' = Step("transport", "", {})
    /\ UNCHANGED <<subs, status, program>>

\* a message is delivered on a topic of the current session's subscriptions
Delivered(topic, payloads) ==
    /\ connected
    /\ topic \in subs
    /\ \E msg \in payloads : HandleIncomingMessage(topic, msg, FALSE)

ConnNext ==
    \/ ConnSubCommand
    \/ ConnSubConfig
    \/ ConnOnline
    \/ LinkDown
    \/ LinkUp
    \/ Delivered(CONFIG_TOPIC, FineConfigs)
    \/ Delivered(COMMAND_TOPIC, FineCommands)
    \/ SamplerCycle
    \/ MainConnect
    \/ MainBrokerSleep
    \/ connected /\ MainOnline
    \/ ConfigWait
    \/ connected /\ CommandPublished
    \/ connected /\ ReadingsPublished
    \/ connected /\ NotificationPublished
    \/ TickSleep

\* the program with its connection handler, over a link that drops
ConnSpec == Init /\ [][ConnNext]_vars

-----------------------------------------------------------------------------
\* a step of the transport that establishes a connection
Establishes == ~connected /\ connected'

\* C19: every connection the transport establishes starts a run of conn_han,
\* which subscribes to the command topic, then to the config topic, then
\* publishes "online" retained on the status topic; once the runs have ended
\* on a live connection both subscriptions are in place and the status is
\* "online"; link events and conn_han leave the sampler and every global it
\* works on untouched, and start no second sampler.
C19_ResubscribesOnEveryConnection ==
    /\ [][Establishes => "sub_command" \in pcConn']_vars
    /\ [][(last'.by = "conn" /\ "sub_config" \in pcConn' \ pcConn) =>
              /\ "sub_command" \in pcConn
              /\ COMMAND_TOPIC \in subs']_vars
    /\ [][(last'.by = "conn" /\ "online" \in pcConn' \ pcConn) =>
              /\ "sub_config" \in pcConn
              /\ CONFIG_TOPIC \in subs']_vars
    /\ [][(last'.by = "conn" /\ status' # status) =>
              /\ "online" \in pcConn
              /\ status' = Online]_vars
    /\ [](connected /\ pcConn = {} =>
              /\ subs = {COMMAND_TOPIC, CONFIG_TOPIC}
              /\ status = Online)
    /\ [][last'.by \in {"conn", "transport"} =>
              UNCHANGED <<pcSampler, samplerLocals, shared>>]_vars

\* C19 witness: the link went down (the will's "offline" is the retained
\* status), the transport has reconnected, and the handler it started has
\* made both subscriptions again and is about to publish "online"; monitoring
\* is on and the sampler has counted a quiet sample.
C19_Witness ==
    /\ connected
    /\ status = Offline
    /\ subs = {COMMAND_TOPIC, CONFIG_TOPIC}
    /\ pcConn = {"online"}
    /\ last.by = "conn"
    /\ is_active
    /\ idle_counter > 0
====
